---- MODULE Spec2Model ----
(***************************************************************************)
(* A model of the GoogleStreetView node (google_street_view.py).           *)
(*                                                                         *)
(* Python strings are sequences of one-character strings; a literal of the *)
(* source that is never inspected character by character is one token of   *)
(* such a sequence.  None is the one-token sequence <<"<None>">>.  An       *)
(* optional integer is a sequence of length 0 (None) or 1.                 *)
(***************************************************************************)
EXTENDS Integers, Sequences, FiniteSets, TLC

VARIABLES apiKey, address, size, opts, resp, env, pc, errors, out, log, runs

vars == <<apiKey, address, size, opts, resp, env, pc, errors, out, log, runs>>

(***************************************************************************)
(* Bounds of the model.                                                    *)
(***************************************************************************)
\* addresses are all strings over AddrChars of at most this length
MaxAddrLen == 2
\* size strings include all strings over SizeChars of at most this length
MaxSizeLen == 3
\* HTTP status codes range over 100 .. MaxCode
MaxCode == 599
\* executions of the node in one behaviour
MaxRuns == 2

(***************************************************************************)
(* Program constants.                                                      *)
(***************************************************************************)
SizeLimit == 640
DefaultFov == 90
DefaultPitch == 0
DefaultRadius == 50
HttpTimeout == 30

BASE_URL == "https://maps.googleapis.com/maps/api/streetview"
API_KEY_ENV_VAR == "GOOGLE_MAPS_API_KEY"

None == <<"<None>">>

(***************************************************************************)
(* Python string primitives.                                               *)
(***************************************************************************)
Whitespace == {" ", "\t"}
Digits == {"0", "1", "2", "3", "4", "5", "6", "7", "8", "9"}

DigitVal(c) ==
  CASE c = "0" -> 0 [] c = "1" -> 1 [] c = "2" -> 2 [] c = "3" -> 3
    [] c = "4" -> 4 [] c = "5" -> 5 [] c = "6" -> 6 [] c = "7" -> 7
    [] c = "8" -> 8 [] c = "9" -> 9

DigitChar(d) ==
  CASE d = 0 -> "0" [] d = 1 -> "1" [] d = 2 -> "2" [] d = 3 -> "3"
    [] d = 4 -> "4" [] d = 5 -> "5" [] d = 6 -> "6" [] d = 7 -> "7"
    [] d = 8 -> "8" [] d = 9 -> "9"

\* str.lower() on the characters the model uses
LowerChar(c) == CASE c = "X" -> "x" [] c = "A" -> "a" [] OTHER -> c

Lower(s) == [i \in 1..Len(s) |-> LowerChar(s[i])]

RECURSIVE LStrip(_)
LStrip(s) == IF s # <<>> /\ Head(s) \in Whitespace THEN LStrip(Tail(s)) ELSE s

RECURSIVE RStrip(_)
RStrip(s) ==
  IF s # <<>> /\ s[Len(s)] \in Whitespace THEN RStrip(SubSeq(s, 1, Len(s) - 1)) ELSE s

\* str.strip()
Strip(s) == RStrip(LStrip(s))

\* str.split(sep) for a one-character separator: k separators give k+1 parts
RECURSIVE SplitFrom(_, _, _)
SplitFrom(s, sep, cur) ==
  IF s = <<>> THEN <<cur>>
  ELSE IF Head(s) = sep THEN <<cur>> \o SplitFrom(Tail(s), sep, <<>>)
  ELSE SplitFrom(Tail(s), sep, Append(cur, Head(s)))

Split(s, sep) == SplitFrom(s, sep, <<>>)

\* the value of digits-and-underscores, left to right
RECURSIVE DigitsValue(_, _)
DigitsValue(s, acc) ==
  IF s = <<>> THEN acc
  ELSE IF Head(s) = "_" THEN DigitsValue(Tail(s), acc)
  ELSE DigitsValue(Tail(s), 10 * acc + DigitVal(Head(s)))

\* int(str): surrounding whitespace is stripped, then an optional sign, then
\* decimal digits with single underscores allowed between digits; anything
\* else raises ValueError (ok = FALSE)
PyInt(s) ==
  LET t == Strip(s)
      neg == t # <<>> /\ Head(t) = "-"
      body == IF t # <<>> /\ Head(t) \in {"+", "-"} THEN Tail(t) ELSE t
      wellFormed ==
        /\ body # <<>>
        /\ \A i \in 1..Len(body) : body[i] \in Digits \cup {"_"}
        /\ body[1] \in Digits
        /\ body[Len(body)] \in Digits
        /\ \A i \in 1..(Len(body) - 1) : ~(body[i] = "_" /\ body[i + 1] = "_")
  IN IF wellFormed
       THEN [ok |-> TRUE, val |-> IF neg THEN 0 - DigitsValue(body, 0) ELSE DigitsValue(body, 0)]
       ELSE [ok |-> FALSE, val |-> 0]

\* str(int)
RECURSIVE NatStr(_)
NatStr(n) == IF n < 10 THEN <<DigitChar(n)>> ELSE Append(NatStr(n \div 10), DigitChar(n % 10))

IntStr(n) == IF n < 0 THEN <<"-">> \o NatStr(0 - n) ELSE NatStr(n)

(***************************************************************************)
(* validate_node and _validate_size_format.                                *)
(***************************************************************************)
ErrNoKey ==
  <<"Google Maps API key not found. Please set the ", API_KEY_ENV_VAR, " environment variable.">>
ErrAddress == <<"Address is required.">>
ErrSize == <<"Invalid size format. Use 'widthxheight' (e.g., '600x400').">>

\* Python truthiness of an optional string: None and "" are falsy
Truthy(s) == s # None /\ s # <<>>

ValidateSizeFormatNoHeightLimit(sz) ==
  LET low == Lower(sz)
      parts == Split(low, "x")
  IN IF \A i \in 1..Len(low) : low[i] # "x" THEN FALSE
     ELSE IF Len(parts) # 2 THEN FALSE
     ELSE LET w == PyInt(parts[1])
              h == PyInt(parts[2])
          IN IF ~w.ok \/ ~h.ok THEN FALSE
             ELSE w.val > 0 /\ h.val > 0 /\ w.val <= SizeLimit

_validate_size_format(sz) ==
  LET low == Lower(sz)
      parts == Split(low, "x")
  IN IF \A i \in 1..Len(low) : low[i] # "x" THEN FALSE
     ELSE IF Len(parts) # 2 THEN FALSE
     ELSE LET w == PyInt(parts[1])
              h == PyInt(parts[2])
          IN IF ~w.ok \/ ~h.ok THEN FALSE
             ELSE w.val > 0 /\ h.val > 0 /\ w.val <= SizeLimit /\ h.val <= SizeLimit

\* a validate_node that returns at the first problem it finds
ValidateNodeShortCircuit(key, addr, sz) ==
  IF ~Truthy(key) THEN <<ErrNoKey>>
  ELSE IF ~Truthy(addr) \/ ~Truthy(Strip(addr)) THEN <<ErrAddress>>
  ELSE IF Truthy(sz) /\ ~_validate_size_format(sz) THEN <<ErrSize>>
  ELSE None

\* a validate_node that does not look at the credential
ValidateNodeNoKeyCheck(key, addr, sz) ==
  LET e2 == IF ~Truthy(addr) \/ ~Truthy(Strip(addr)) THEN <<ErrAddress>> ELSE <<>>
      e3 == IF Truthy(sz) /\ ~_validate_size_format(sz) THEN <<ErrSize>> ELSE <<>>
      errs == e2 \o e3
  IN IF errs # <<>> THEN errs ELSE None

validate_node(key, addr, sz) ==
  LET e1 == IF ~Truthy(key) THEN <<ErrNoKey>> ELSE <<>>
      e2 == IF ~Truthy(addr) \/ ~Truthy(Strip(addr)) THEN <<ErrAddress>> ELSE <<>>
      e3 == IF Truthy(sz) /\ ~_validate_size_format(sz) THEN <<ErrSize>> ELSE <<>>
      errs == e1 \o e2 \o e3
  IN IF errs # <<>> THEN errs ELSE None

(***************************************************************************)
(* _build_request_url.                                                     *)
(***************************************************************************)
\* a lone surrogate code point: a str character that UTF-8 cannot encode
Surrogate == "<U+D800>"

\* the characters urllib.parse.quote leaves alone (safe = "/")
QuoteSafe == Digits \cup {"a", "A", "x", "X", "_", ".", "-", "~", "/"}

\* the percent-escape of the UTF-8 encoding of one character
PctEncode(c) ==
  CASE c = " " -> <<"%", "2", "0">>
    [] c = "\t" -> <<"%", "0", "9">>
    [] c = "&" -> <<"%", "2", "6">>
    [] c = "=" -> <<"%", "3", "D">>
    [] c = "+" -> <<"%", "2", "B">>
    [] c = "?" -> <<"%", "3", "F">>

RECURSIVE QuoteChars(_)
QuoteChars(s) ==
  IF s = <<>> THEN <<>>
  ELSE (IF Head(s) \in QuoteSafe THEN <<Head(s)>> ELSE PctEncode(Head(s))) \o QuoteChars(Tail(s))

Exc(type, msg) == [type |-> type, msg |-> msg]
Ok(v) == [ok |-> TRUE, val |-> v, exc |-> Exc("", <<>>)]
Raise(type, msg) == [ok |-> FALSE, val |-> <<>>, exc |-> Exc(type, msg)]

\* urllib.parse.quote(string): a non-str argument is handed to
\* quote_from_bytes, which raises TypeError; a str is encoded as UTF-8
\* (strict), which raises UnicodeEncodeError on a surrogate
Quote(s) ==
  IF s = None THEN Raise("TypeError", <<"quote_from_bytes() expected bytes">>)
  ELSE IF \E i \in 1..Len(s) : s[i] = Surrogate
    THEN Raise("UnicodeEncodeError", <<"'utf-8' codec can't encode character: surrogates not allowed">>)
  ELSE Ok(QuoteChars(s))

\* f"{v}" of an optional string
FmtStr(s) == IF s = None THEN <<"N", "o", "n", "e">> ELSE s

\* '&'.join([f"{k}={v}" for k, v in params.items()])
RECURSIVE JoinParams(_)
JoinParams(ps) ==
  IF ps = <<>> THEN <<>>
  ELSE <<ps[1][1], "=">> \o ps[1][2]
       \o (IF Len(ps) > 1 THEN <<"&">> \o JoinParams(Tail(ps)) ELSE <<>>)

\* the optional entries of params, in the order the code inserts them
OptionalParams(o) ==
  (IF o.heading # <<>> THEN <<<<"heading", IntStr(o.heading[1])>>>> ELSE <<>>)
  \o (IF o.fov # DefaultFov THEN <<<<"fov", IntStr(o.fov)>>>> ELSE <<>>)
  \o (IF o.pitch # DefaultPitch THEN <<<<"pitch", IntStr(o.pitch)>>>> ELSE <<>>)
  \o (IF o.radius # DefaultRadius THEN <<<<"radius", IntStr(o.radius)>>>> ELSE <<>>)
  \o (IF o.source # <<"default">> THEN <<<<"source", o.source>>>> ELSE <<>>)
  \o (IF o.return_error_code THEN <<<<"return_error_code", <<"t", "r", "u", "e">>>>>> ELSE <<>>)

\* optional entries with fov always sent
OptionalParamsFovAlways(o) ==
  (IF o.heading # <<>> THEN <<<<"heading", IntStr(o.heading[1])>>>> ELSE <<>>)
  \o <<<<"fov", IntStr(o.fov)>>>>
  \o (IF o.pitch # DefaultPitch THEN <<<<"pitch", IntStr(o.pitch)>>>> ELSE <<>>)
  \o (IF o.radius # DefaultRadius THEN <<<<"radius", IntStr(o.radius)>>>> ELSE <<>>)
  \o (IF o.source # <<"default">> THEN <<<<"source", o.source>>>> ELSE <<>>)
  \o (IF o.return_error_code THEN <<<<"return_error_code", <<"t", "r", "u", "e">>>>>> ELSE <<>>)

BuildRequestUrlFovAlways(key, addr, sz, o) ==
  LET loc == Quote(addr)
      params == <<<<"location", loc.val>>, <<"size", FmtStr(sz)>>, <<"key", FmtStr(key)>>>>
                \o OptionalParamsFovAlways(o)
  IN IF ~loc.ok THEN loc ELSE Ok(<<BASE_URL, "?">> \o JoinParams(params))

_build_request_url(key, addr, sz, o) ==
  LET loc == Quote(addr)
      params == <<<<"location", loc.val>>, <<"size", FmtStr(sz)>>, <<"key", FmtStr(key)>>>>
                \o OptionalParams(o)
  IN IF ~loc.ok THEN loc ELSE Ok(<<BASE_URL, "?">> \o JoinParams(params))

(***************************************************************************)
(* _handle_api_response.  The response is [code, content]; the clock is in *)
(* milliseconds, so int(time.time()) is now \div 1000; the file store      *)
(* answers save_static_file with a reference URL or raises.                *)
(***************************************************************************)
MsgNoImagery == <<"No Street View imagery available for this location.">>
MsgBadRequest == <<"Invalid request parameters.">>
MsgForbidden == <<"API key invalid or quota exceeded.">>
MsgApiError(code) == <<"Street View API error: ">> \o IntStr(code)

SaveCall(data, filename) == [data |-> data, filename |-> filename]

\* StaticFilesManager().save_static_file(data, filename)
save_static_file(store, data, filename) ==
  IF store.ok THEN Ok(<<store.base>> \o filename)
  ELSE Raise("OSError", <<"cannot write static file">>)

Handled(saves, res) == [saves |-> saves, res |-> res]

\* a handler that takes every code below 300 for a success
HandleApiResponseAny2xx(response, now, store) ==
  IF response.code = 404 THEN Handled(<<>>, Raise("ValueError", MsgNoImagery))
  ELSE IF response.code = 400 THEN Handled(<<>>, Raise("ValueError", MsgBadRequest))
  ELSE IF response.code = 403 THEN Handled(<<>>, Raise("ValueError", MsgForbidden))
  ELSE IF response.code >= 300 THEN Handled(<<>>, Raise("ValueError", MsgApiError(response.code)))
  ELSE LET image_data == response.content
           filename == <<"streetview_">> \o IntStr(now \div 1000) \o <<".jpg">>
       IN Handled(<<SaveCall(image_data, filename)>>, save_static_file(store, image_data, filename))

_handle_api_response(response, now, store) ==
  IF response.code = 404 THEN Handled(<<>>, Raise("ValueError", MsgNoImagery))
  ELSE IF response.code = 400 THEN Handled(<<>>, Raise("ValueError", MsgBadRequest))
  ELSE IF response.code = 403 THEN Handled(<<>>, Raise("ValueError", MsgForbidden))
  ELSE IF response.code # 200 THEN Handled(<<>>, Raise("ValueError", MsgApiError(response.code)))
  ELSE LET image_data == response.content
           filename == <<"streetview_">> \o IntStr(now \div 1000) \o <<".jpg">>
       IN Handled(<<SaveCall(image_data, filename)>>, save_static_file(store, image_data, filename))

(***************************************************************************)
(* process / fetch_street_view.  An execution is the sequence of the calls *)
(* it makes on its collaborators, in order, ending with its return or with *)
(* the error it raises.                                                    *)
(***************************************************************************)
Ev(ev, a, b) == [ev |-> ev, a |-> a, b |-> b]

ImageUrlArtifact(url) == <<"ImageUrlArtifact">> \o url

MsgFetched == "Street View image fetched successfully for: "
MsgFailed == "Failed to fetch Street View image: "

\* a request that is sent again after a transport fault
RequestsGetRetry(url, http) ==
  IF http.kind = "fault"
    THEN <<Ev("http_get", url, HttpTimeout), Ev("http_get", url, HttpTimeout)>>
    ELSE <<Ev("http_get", url, HttpTimeout)>>

\* requests.get(url, timeout=30)
RequestsGet(url, http) == <<Ev("http_get", url, HttpTimeout)>>

\* an except clause that raises without publishing
ExceptHandlerSilent(exc) ==
  LET error_msg == <<MsgFailed>> \o exc.msg
  IN <<Ev("raise", "RuntimeError", error_msg)>>

\* an except clause that also clears the image output
ExceptHandlerClearsImage(exc) ==
  LET error_msg == <<MsgFailed>> \o exc.msg
  IN <<Ev("publish", "street_view_image", None),
       Ev("publish", "status", error_msg),
       Ev("raise", "RuntimeError", error_msg)>>

\* the except clause of fetch_street_view
ExceptHandler(exc) ==
  LET error_msg == <<MsgFailed>> \o exc.msg
  IN <<Ev("publish", "status", error_msg), Ev("raise", "RuntimeError", error_msg)>>

\* a success path that reports the encoded address
PublishOutputsEncoded(image_url, addr) ==
  <<Ev("publish", "street_view_image", ImageUrlArtifact(image_url)),
    Ev("publish", "status", <<MsgFetched>> \o Quote(addr).val),
    Ev("return", "ImageUrlArtifact", image_url)>>

\* a success path that publishes the status before and after the image
PublishOutputsStatusTwice(image_url, addr) ==
  <<Ev("publish", "status", <<MsgFetched>> \o FmtStr(addr)),
    Ev("publish", "street_view_image", ImageUrlArtifact(image_url)),
    Ev("publish", "status", <<MsgFetched>> \o FmtStr(addr)),
    Ev("return", "ImageUrlArtifact", image_url)>>

\* the end of the try block: both outputs, then the return
PublishOutputs(image_url, addr) ==
  <<Ev("publish", "street_view_image", ImageUrlArtifact(image_url)),
    Ev("publish", "status", <<MsgFetched>> \o FmtStr(addr)),
    Ev("return", "ImageUrlArtifact", image_url)>>

SaveEvents(saves) == [i \in 1..Len(saves) |-> Ev("save", saves[i].data, saves[i].filename)]

fetch_street_view(key, addr, sz, o, e) ==
  LET built == _build_request_url(key, addr, sz, o)
      handled == _handle_api_response(e.http.response, e.now, e.store)
  IN IF ~built.ok THEN ExceptHandler(built.exc)
     ELSE IF e.http.kind = "fault"
       THEN RequestsGet(built.val, e.http) \o ExceptHandler(e.http.exc)
     ELSE IF ~handled.res.ok
       THEN RequestsGet(built.val, e.http) \o SaveEvents(handled.saves)
            \o ExceptHandler(handled.res.exc)
     ELSE RequestsGet(built.val, e.http) \o SaveEvents(handled.saves)
          \o PublishOutputs(handled.res.val, addr)

(***************************************************************************)
(* The inputs: what the host's parameter store and configuration store can *)
(* hold, and what the HTTP endpoint, the file store and the clock can      *)
(* answer.                                                                 *)
(***************************************************************************)
RECURSIVE StringsUpTo(_, _)
StringsUpTo(chars, n) ==
  IF n = 0 THEN {<<>>}
  ELSE LET prev == StringsUpTo(chars, n - 1)
       IN prev \cup {Append(s, c) : s \in prev, c \in chars}

KEY == <<"AIza-secret">>
Keys == {None, <<>>, KEY}

AddrChars == {"a", " ", "&", Surrogate}
Addresses == {None} \cup StringsUpTo(AddrChars, MaxAddrLen)

SizeOf(w, sep, h) == IntStr(w) \o sep \o IntStr(h)

SizeChars == {"0", "1", "x", "X", " ", "-", "+", "_", "a"}
DimValues == {0, 1, 300, 400, 600, SizeLimit, SizeLimit + 1, 800}
SizeStrings ==
  {None}
  \cup StringsUpTo(SizeChars, MaxSizeLen)
  \cup {SizeOf(w, <<sep>>, h) : w \in DimValues, h \in DimValues, sep \in {"x", "X"}}
  \cup {<<" ">> \o SizeOf(600, <<"x">>, 400) \o <<"\t">>,
        SizeOf(600, <<" ", "x", " ">>, 400),
        <<"+">> \o SizeOf(600, <<"x", "+">>, 400),
        <<"-">> \o SizeOf(600, <<"x">>, 400),
        <<"6", "_", "0", "0", "x", "4", "0", "0">>,
        <<"6", "_", "_", "0", "x", "4", "0", "0">>,
        <<"0">> \o SizeOf(600, <<"x", "0">>, 400),
        SizeOf(600, <<"x">>, 400) \o <<"x", "1">>,
        SizeOf(600, <<"*">>, 400),
        SizeOf(600, <<>>, 400)}

ValidatedAddresses == {None, <<>>, <<" ">>, <<"\t", " ">>, <<"a">>, <<" ", "a", " ">>}

MainSizes == {None, <<>>, SizeOf(600, <<"x">>, 400), SizeOf(800, <<"x">>, 600), <<"a">>}

Opts(h, f, p, r, s, rec) ==
  [heading |-> h, fov |-> f, pitch |-> p, radius |-> r, source |-> s, return_error_code |-> rec]

\* the declared defaults of the optional parameters
DefaultOpts == Opts(<<>>, DefaultFov, DefaultPitch, DefaultRadius, <<"default">>, TRUE)

UrlOpts ==
  {Opts(h, f, p, r, s, rec) :
     h \in {<<>>, <<0>>, <<90>>}, f \in {60, DefaultFov, 120}, p \in {-90, DefaultPitch},
     r \in {DefaultRadius, 1000}, s \in {<<"default">>, <<"outdoor">>}, rec \in BOOLEAN}

MainOpts ==
  {DefaultOpts,
   Opts(<<>>, DefaultFov, DefaultPitch, DefaultRadius, <<"default">>, FALSE),
   Opts(<<0>>, 60, -90, 1000, <<"outdoor">>, TRUE)}

Bodies == {<<>>, <<"J", "P", "E", "G">>}

Response(code, content) == [code |-> code, content |-> content]

MainCodes == {200, 204, 400, 403, 404, 418, 500}

HttpOutcomes ==
  {[kind |-> "response", response |-> Response(c, b), exc |-> Exc("", <<>>)] :
     c \in MainCodes, b \in Bodies}
  \cup {[kind |-> "fault", response |-> Response(0, <<>>), exc |-> Exc(t, <<t>>)] :
          t \in {"Timeout", "ConnectionError"}}

Stores == {[ok |-> TRUE, base |-> b] : b \in {"/static/", "http://host/files/"}}
          \cup {[ok |-> FALSE, base |-> ""]}

Clocks == {999, 1000, 86400999}

Envs == [http : HttpOutcomes, store : Stores, now : Clocks]

NoEnv == [http |-> [kind |-> "none", response |-> Response(0, <<>>), exc |-> Exc("", <<>>)],
          store |-> [ok |-> FALSE, base |-> ""], now |-> 0]

(***************************************************************************)
(* The node under its host.                                                *)
(***************************************************************************)
\* the host runs process only when validate_node reported nothing
HostProceeds(errs) == errs = None

Rest ==
  /\ resp = Response(0, <<>>)
  /\ env = NoEnv
  /\ pc = "idle"
  /\ errors = None
  /\ out = <<>>
  /\ log = <<>>
  /\ runs = 0

Init ==
  /\ apiKey \in Keys
  /\ address \in Addresses
  /\ size \in MainSizes
  /\ opts \in MainOpts
  /\ Rest

\* the host's validation pass before a run
ValidateNode ==
  /\ pc # "ready"
  /\ runs < MaxRuns
  /\ errors' = validate_node(apiKey, address, size)
  /\ pc' = IF HostProceeds(errors') THEN "ready" ELSE "rejected"
  /\ runs' = runs + 1
  /\ log' = <<>>
  /\ env' = NoEnv
  /\ UNCHANGED <<apiKey, address, size, opts, resp, out>>

\* one execution of process: the host runs the yielded fetch_street_view
Process ==
  /\ pc = "ready"
  /\ \E e \in Envs :
       /\ env' = e
       /\ log' = fetch_street_view(apiKey, address, size, opts, e)
  /\ pc' = IF log'[Len(log')].ev = "return" THEN "done" ELSE "failed"
  /\ UNCHANGED <<apiKey, address, size, opts, resp, errors, out, runs>>

Next == ValidateNode \/ Process

Spec == Init /\ [][Next]_vars

(***************************************************************************)
(* validate_node applied to every input.                                   *)
(***************************************************************************)
InitValidate ==
  /\ apiKey \in Keys
  /\ address \in ValidatedAddresses
  /\ size \in SizeStrings
  /\ opts = DefaultOpts
  /\ Rest

SpecValidate == InitValidate /\ [][ValidateNode]_vars

(***************************************************************************)
(* _build_request_url applied to every parameter set.                      *)
(***************************************************************************)
InitUrl ==
  /\ apiKey \in {None, KEY}
  /\ address \in Addresses
  /\ size = SizeOf(600, <<"x">>, 400)
  /\ opts \in UrlOpts
  /\ Rest

BuildUrl ==
  /\ pc = "idle"
  /\ out' = _build_request_url(apiKey, address, size, opts)
  /\ pc' = "built"
  /\ UNCHANGED <<apiKey, address, size, opts, resp, env, errors, log, runs>>

SpecUrl == InitUrl /\ [][BuildUrl]_vars

(***************************************************************************)
(* _handle_api_response applied to every response.                         *)
(***************************************************************************)
InitClassify ==
  /\ apiKey = KEY
  /\ address = <<"a">>
  /\ size = SizeOf(600, <<"x">>, 400)
  /\ opts = DefaultOpts
  /\ resp \in {Response(c, b) : c \in 100..MaxCode, b \in Bodies}
  /\ env = NoEnv
  /\ pc = "idle"
  /\ errors = None
  /\ out = <<>>
  /\ log = <<>>
  /\ runs = 0

HandleResponse ==
  /\ pc = "idle"
  /\ \E st \in Stores, t \in Clocks :
       /\ env' = [http |-> [kind |-> "response", response |-> resp, exc |-> Exc("", <<>>)],
                  store |-> st, now |-> t]
       /\ out' = _handle_api_response(resp, t, st)
  /\ pc' = "handled"
  /\ UNCHANGED <<apiKey, address, size, opts, resp, errors, log, runs>>

SpecClassify == InitClassify /\ [][HandleResponse]_vars

(***************************************************************************)
(* What an execution did, read off its log.                                *)
(***************************************************************************)
HttpGets == {i \in DOMAIN log : log[i].ev = "http_get"}
SaveCalls == {i \in DOMAIN log : log[i].ev = "save"}
Raises == {i \in DOMAIN log : log[i].ev = "raise"}
StatusPubs == {i \in DOMAIN log : log[i].ev = "publish" /\ log[i].a = "status"}
ImagePubs == {i \in DOMAIN log : log[i].ev = "publish" /\ log[i].a = "street_view_image"}
Finished == pc \in {"done", "failed"}
GotResponse == env.http.kind = "response"
GotCode(c) == GotResponse /\ env.http.response.code = c

ErrorCount(e) ==
  IF errors = None THEN 0 ELSE Cardinality({i \in DOMAIN errors : errors[i] = e})

KeyMissing == apiKey = None \/ apiKey = <<>>
AddressBlank == address = None \/ \A i \in DOMAIN address : address[i] \in Whitespace
SizeGiven == size # None /\ size # <<>>
SizeRejected == SizeGiven /\ ~_validate_size_format(size)

(***************************************************************************)
(* The claims.                                                             *)
(***************************************************************************)

\* C1: whatever the outcome of an execution (200, non-200, transport fault,
\* a fault while building the URL or while persisting the file), the status
\* output has been published exactly once when the execution ends, and is
\* never published twice.
C1_StatusExactlyOnce ==
  /\ Cardinality(StatusPubs) <= 1
  /\ Finished => Cardinality(StatusPubs) = 1

\* an execution that failed while persisting the file, with its one status
C1_Witness ==
  /\ pc = "failed"
  /\ GotCode(200)
  /\ SaveCalls # {}
  /\ Cardinality(StatusPubs) = 1

\* C2: when a validation rule is violated (credential absent, address empty
\* or all-whitespace, size malformed), the run makes no HTTP call.
C2_NoHttpWhenInvalid ==
  (KeyMissing \/ AddressBlank \/ SizeRejected) => HttpGets = {}

\* a run rejected for the missing credential alone, nothing requested
C2_Witness ==
  /\ pc = "rejected"
  /\ KeyMissing /\ ~AddressBlank /\ ~SizeRejected
  /\ HttpGets = {}

\* C3: the fatal error is never signalled before the status output has been
\* published with the failure message: every raise in the log is preceded
\* by a publish of status carrying "Failed to fetch Street View image: "
\* and the cause.
C3_StatusBeforeFatal ==
  \A r \in Raises :
    \E i \in StatusPubs :
      /\ i < r
      /\ Len(log[i].b) > 1
      /\ log[i].b[1] = "Failed to fetch Street View image: "
      /\ log[i].b = log[r].b

\* a transport fault: status published, then the error raised
C3_Witness ==
  /\ pc = "failed"
  /\ env.http.kind = "fault"
  /\ \E r \in Raises : \E i \in StatusPubs : i < r

\* C4: an execution that ends with a fatal error never publishes the image
\* output; the image output is published only by an execution that
\* completes successfully.
C4_NoImageOnFailure ==
  /\ pc = "failed" => ImagePubs = {}
  /\ ImagePubs # {} => pc = "done"

\* an upstream 404: failed, and no image published
C4_Witness ==
  /\ pc = "failed"
  /\ GotCode(404)
  /\ ImagePubs = {}
  /\ StatusPubs # {}

\* C5: the classification of a response follows the fixed table: 200 hands
\* exactly the body to the file store; 404, 400, 403 raise their fixed
\* messages; any other code c raises "Street View API error: c"; no code but
\* 200 is a success.
C5_ClassificationTable ==
  pc = "handled" =>
    LET c == resp.code
        failed == ~out.res.ok /\ out.res.exc.type = "ValueError" /\ out.saves = <<>>
    IN /\ c = 200 => /\ Len(out.saves) = 1
                     /\ out.saves[1].data = resp.content
                     /\ env.store.ok => out.res.ok
       /\ c = 404 => failed /\ out.res.exc.msg = <<"No Street View imagery available for this location.">>
       /\ c = 400 => failed /\ out.res.exc.msg = <<"Invalid request parameters.">>
       /\ c = 403 => failed /\ out.res.exc.msg = <<"API key invalid or quota exceeded.">>
       /\ c \notin {200, 400, 403, 404} =>
            /\ failed
            /\ Head(out.res.exc.msg) = "Street View API error: "
            /\ PyInt(Tail(out.res.exc.msg)) = [ok |-> TRUE, val |-> c]
       /\ (out.res.ok \/ out.saves # <<>>) => c = 200

\* 418 classified as the generic upstream error naming the code
C5_Witness ==
  /\ pc = "handled"
  /\ resp.code = 418
  /\ out.res.exc.msg = <<"Street View API error: ", "4", "1", "8">>

\* the shape ^\d+x\d+$ with both dimensions in 1 .. 640
AllDigits(s) == s # <<>> /\ \A i \in DOMAIN s : s[i] \in Digits

RECURSIVE NumeralValue(_)
NumeralValue(s) ==
  IF s = <<>> THEN 0
  ELSE IF s[Len(s)] = "_" THEN NumeralValue(SubSeq(s, 1, Len(s) - 1))
  ELSE 10 * NumeralValue(SubSeq(s, 1, Len(s) - 1)) + DigitVal(s[Len(s)])

InRange(n) == 0 < n /\ n <= 640

StrictSize(s) ==
  \E i \in DOMAIN s :
    /\ s[i] = "x"
    /\ AllDigits(SubSeq(s, 1, i - 1)) /\ AllDigits(SubSeq(s, i + 1, Len(s)))
    /\ InRange(NumeralValue(SubSeq(s, 1, i - 1)))
    /\ InRange(NumeralValue(SubSeq(s, i + 1, Len(s))))

\* what int() accepts with a value in 1 .. 640: whitespace, an optional "+",
\* then digits with single underscores between them, then whitespace
LenientDimension(p) ==
  \E a \in DOMAIN p, b \in DOMAIN p :
    /\ a <= b
    /\ \A j \in DOMAIN p : (j < a \/ j > b) => p[j] \in Whitespace
    /\ LET d == IF p[a] = "+" THEN SubSeq(p, a + 1, b) ELSE SubSeq(p, a, b)
       IN /\ d # <<>>
          /\ \A j \in DOMAIN d : d[j] \in Digits \/ (d[j] = "_" /\ 1 < j /\ j < Len(d) /\ d[j + 1] # "_")
          /\ InRange(NumeralValue(d))

LenientSize(s) ==
  \E i \in DOMAIN s :
    /\ s[i] \in {"x", "X"}
    /\ \A j \in DOMAIN s : j # i => s[j] \notin {"x", "X"}
    /\ LenientDimension(SubSeq(s, 1, i - 1))
    /\ LenientDimension(SubSeq(s, i + 1, Len(s)))

\* C6 as stated: for every non-empty size, no size error if the size has the
\* shape ^\d+x\d+$ with 0<W<=640 and 0<H<=640, exactly one size error
\* otherwise.
C6_StrictPattern ==
  (runs >= 1 /\ SizeGiven) => ErrorCount(ErrSize) = (IF StrictSize(size) THEN 0 ELSE 1)

\* C6 amended: for every non-empty size, no size error exactly when the size,
\* split at its single "x" or "X", has two parts that int() accepts with
\* values in 1 .. 640 (surrounding whitespace, a "+" sign and underscores
\* between digits allowed); exactly one size error otherwise.
C6_LenientPattern ==
  (runs >= 1 /\ SizeGiven) => ErrorCount(ErrSize) = (IF LenientSize(size) THEN 0 ELSE 1)

\* the size 600X400, outside the strict pattern, validated without an error
C6_Witness ==
  /\ runs >= 1
  /\ size = <<"6", "0", "0", "X", "4", "0", "0">>
  /\ ErrorCount(ErrSize) = 0
  /\ ~StrictSize(size)

\* C7: validate_node reports exactly one error per violated rule, whatever
\* the other rules say, reports nothing (None) exactly when no rule is
\* violated, and never reports an absent or empty size.
C7_RulesIndependent ==
  runs >= 1 =>
    /\ ErrorCount(ErrNoKey) = (IF KeyMissing THEN 1 ELSE 0)
    /\ ErrorCount(ErrAddress) = (IF AddressBlank THEN 1 ELSE 0)
    /\ ErrorCount(ErrSize) = (IF SizeRejected THEN 1 ELSE 0)
    /\ errors # None =>
         Len(errors) = ErrorCount(ErrNoKey) + ErrorCount(ErrAddress) + ErrorCount(ErrSize)
    /\ errors = None <=> ~(KeyMissing \/ AddressBlank \/ SizeRejected)
    /\ ~SizeGiven => ErrorCount(ErrSize) = 0

\* all three rules violated at once, three errors reported
C7_Witness ==
  /\ runs >= 1
  /\ KeyMissing /\ AddressBlank /\ SizeRejected
  /\ errors # None
  /\ Len(errors) = 3

\* the query of a URL: its key=value parts, split at "&" and at the first "="
QueryParts(url) == Split(SubSeq(url, 3, Len(url)), "&")
PartKey(part) == Split(part, "=")[1]
PartValue(part) == SubSeq(part, Len(PartKey(part)) + 2, Len(part))
QueryKeys(url) == [i \in DOMAIN QueryParts(url) |-> PartKey(QueryParts(url)[i])]
ValueOf(url, k) ==
  LET i == CHOOSE j \in DOMAIN QueryParts(url) : PartKey(QueryParts(url)[j]) = <<k>>
  IN PartValue(QueryParts(url)[i])

IsSet(o, k) ==
  CASE k = "heading" -> o.heading # <<>>
    [] k = "fov" -> o.fov # 90
    [] k = "pitch" -> o.pitch # 0
    [] k = "radius" -> o.radius # 50
    [] k = "source" -> o.source # <<"default">>
    [] k = "return_error_code" -> o.return_error_code

RECURSIVE Chosen(_, _)
Chosen(o, ks) ==
  IF ks = <<>> THEN <<>>
  ELSE (IF IsSet(o, Head(ks)) THEN <<<<Head(ks)>>>> ELSE <<>>) \o Chosen(o, Tail(ks))

C8_DefaultsWitness ==
  /\ pc = "built" /\ out.ok
  /\ opts = Opts(<<>>, 90, 0, 50, <<"default">>, FALSE)
  /\ Len(QueryKeys(out.val)) = 3

\* C9: an execution performs at most one HTTP GET, with the 30 s timeout;
\* after a non-200 response or a transport fault it ends in failure with no
\* second request.
C9_SingleAttempt ==
  /\ Cardinality(HttpGets) <= 1
  /\ \A i \in HttpGets : log[i].b = 30
  /\ (Finished /\ (env.http.kind = "fault" \/ ~GotCode(200))) =>
       /\ pc = "failed"
       /\ log[Len(log)].ev = "raise"

\* a timeout after the one request, and the execution failed
C9_Witness ==
  /\ pc = "failed"
  /\ env.http.kind = "fault"
  /\ env.http.exc.type = "Timeout"
  /\ Cardinality(HttpGets) = 1

\* the filename streetview_<seconds>.jpg of clock t (milliseconds)
IsFilename(f, t) ==
  /\ Len(f) >= 3
  /\ f[1] = "streetview_"
  /\ f[Len(f)] = ".jpg"
  /\ AllDigits(SubSeq(f, 2, Len(f) - 1))
  /\ NumeralValue(SubSeq(f, 2, Len(f) - 1)) * 1000 <= t
  /\ t < (NumeralValue(SubSeq(f, 2, Len(f) - 1)) + 1) * 1000

\* C10: on the success path the file store is called exactly once, with the
\* body of the response and a filename streetview_<unixTimeSeconds>.jpg, the
\* image output wraps the reference it returned, and status is "Street View
\* image fetched successfully for: " followed by the address as given; the
\* file store is never called when the response code is not 200.
C10_SuccessPath ==
  /\ pc = "done" =>
       /\ GotCode(200)
       /\ Cardinality(SaveCalls) = 1
       /\ \A i \in SaveCalls :
            /\ log[i].a = env.http.response.content
            /\ IsFilename(log[i].b, env.now)
            /\ \A j \in ImagePubs :
                 log[j].b = <<"ImageUrlArtifact", env.store.base>> \o log[i].b
       /\ Cardinality(ImagePubs) = 1
       /\ \A i \in StatusPubs :
            log[i].b = <<"Street View image fetched successfully for: ">> \o address
  /\ (Finished /\ GotCode(200) /\ env.store.ok /\ HttpGets # {}) => pc = "done"
  /\ ~GotCode(200) => SaveCalls = {}

\* a 200 for an address with a space in it: saved, published, reported
C10_Witness ==
  /\ pc = "done"
  /\ address = <<"a", " ">>
  /\ env.http.response.content = <<"J", "P", "E", "G">>
  /\ env.now = 86400999
  /\ \E i \in SaveCalls : log[i].b = <<"streetview_", "8", "6", "4", "0", "0", ".jpg">>
  /\ \E i \in StatusPubs : log[i].b = <<"Street View image fetched successfully for: ", "a", " ">>

====
